---- MODULE Spec2Model ----
(***************************************************************************)
(* A model of owm-rs: the query builder, the six lookup modes of the      *)
(* current-weather query, and the response classification of run_query.   *)
(*                                                                         *)
(* Strings that end up in a URL are sequences of one-character strings,   *)
(* so that number formatting, comma joining and form-urlencoding are      *)
(* computed character by character.  Two revisions of the crate are in    *)
(* the sources: src/lib.rs (QueryBuilder, a Vec of pairs) and             *)
(* src/current/mod.rs with src/uri/mod.rs (UriBuilder, a HashMap); the    *)
(* variable revision says which one a behaviour runs.                     *)
(*                                                                         *)
(* Spec is the hub with its queries and the transport.  BuilderSpec is a  *)
(* UriBuilder called directly through its public methods, in any order.   *)
(***************************************************************************)
EXTENDS Integers, Sequences, FiniteSets, TLC

VARIABLES
    revision,  \* "lib" (src/lib.rs) or "current" (src/current/mod.rs, src/uri/mod.rs)
    key,       \* WeatherHub.key
    borrow,    \* the borrow flag of WeatherHub.client, a RefCell: "unused" or "writing"
    created,   \* how many queries hub.current() has handed out
    queries,   \* the live CurrentWeatherQuery objects: id -> builder
    mods,      \* history: what the caller set on each live query by units() and lang()
    pc,        \* "idle", "waiting" (a GET is in flight), "returned" or "panicked"
    call,      \* the terminal call running or last run: query, method, payload type
    frame,     \* the locals of the running terminal call; gone when it returns
    wire,      \* the URL of the GET in flight
    response,  \* what the transport answered to the last GET
    result,    \* what the last terminal call returned
    trace,     \* the transport and decoding steps of the running or last call
    ub_file,   \* a UriBuilder used on its own: "uri.rs" or "uri/mod.rs"
    ub_state,  \* "none" (not created), "live" or "moved" (given away by build(self))
    ub,        \* its fields
    ub_log,    \* history: the calls made on it, in order
    ub_url     \* what its last build() returned

hubVars == <<revision, key, borrow, created, queries, mods, pc, call, frame, wire,
             response, result, trace>>
ubVars == <<ub_file, ub_state, ub, ub_log, ub_url>>
vars == <<hubVars, ubVars>>

(***************************************************************************)
(* Bounds of the model.                                                    *)
(***************************************************************************)
\* Queries obtained from one hub in a behaviour.
MaxQueries == 2
\* HashMap iteration orders tried by build: permutations 0..MaxSeed.
MaxSeed == 1

(***************************************************************************)
(* String literals of the sources.                                         *)
(***************************************************************************)
BaseUrl == <<"h", "t", "t", "p", ":", "/", "/", "a", "p", "i", ".", "o", "p", "e", "n", "w", "e", "a", "t", "h", "e", "r", "m", "a", "p", ".", "o", "r", "g", "/", "d", "a", "t", "a", "/">>
ApiVer == <<"2", ".", "5">>
K_appid == <<"a", "p", "p", "i", "d">>
K_q == <<"q">>
K_id == <<"i", "d">>
K_zip == <<"z", "i", "p">>
K_lat == <<"l", "a", "t">>
K_lon == <<"l", "o", "n">>
K_bbox == <<"b", "b", "o", "x">>
K_cluster == <<"c", "l", "u", "s", "t", "e", "r">>
K_cnt == <<"c", "n", "t">>
K_units == <<"u", "n", "i", "t", "s">>
K_lang == <<"l", "a", "n", "g">>
E_weather == <<"w", "e", "a", "t", "h", "e", "r">>
E_box_city == <<"b", "o", "x", "/", "c", "i", "t", "y">>
E_find == <<"f", "i", "n", "d">>
V_yes == <<"y", "e", "s">>
V_no == <<"n", "o">>
V_metric == <<"m", "e", "t", "r", "i", "c">>
V_imperial == <<"i", "m", "p", "e", "r", "i", "a", "l">>

(***************************************************************************)
(* Option<T>.                                                              *)
(***************************************************************************)
None == [some |-> FALSE]
Some(x) == [some |-> TRUE, v |-> x]

(***************************************************************************)
(* Number formatting: i32::to_string and the Display of f32.               *)
(***************************************************************************)
Digits == <<"0", "1", "2", "3", "4", "5", "6", "7", "8", "9">>

RECURSIVE NatToString(_)
NatToString(n) ==
    IF n < 10 THEN <<Digits[n + 1]>>
    ELSE NatToString(n \div 10) \o <<Digits[(n % 10) + 1]>>

\* i32::to_string: decimal, a leading '-' for negatives.
i32_to_string(n) ==
    IF n < 0 THEN <<"-">> \o NatToString(-n) ELSE NatToString(n)

\* An f32 is [cls |-> "finite", h |-> hundredths] or a non-finite class.
\* Display prints the shortest decimal that reads back as the same value:
\* no fraction for a whole number, no trailing zero, and NaN / inf / -inf.
f32_to_string(x) ==
    CASE x.cls = "nan" -> <<"N", "a", "N">>
      [] x.cls = "inf" -> <<"i", "n", "f">>
      [] x.cls = "-inf" -> <<"-", "i", "n", "f">>
      [] OTHER ->
            LET a == IF x.h < 0 THEN -x.h ELSE x.h
                sign == IF x.h < 0 THEN <<"-">> ELSE <<>>
                whole == NatToString(a \div 100)
                fr == a % 100
                frac == IF fr = 0 THEN <<>>
                        ELSE IF fr % 10 = 0 THEN <<".", Digits[(fr \div 10) + 1]>>
                        ELSE <<".", Digits[(fr \div 10) + 1], Digits[(fr % 10) + 1]>>
            IN  sign \o whole \o frac

Finite(h) == [cls |-> "finite", h |-> h]

\* format!("{},{}", a, b)
FormatPair(a, b) == a \o <<",">> \o b

(***************************************************************************)
(* url::form_urlencoded: byte_serialize and Serializer::append_pair.       *)
(***************************************************************************)
Unreserved ==
    {"a", "b", "c", "d", "e", "f", "g", "h", "i", "j", "k", "l", "m", "n", "o",
     "p", "q", "r", "s", "t", "u", "v", "w", "x", "y", "z",
     "A", "B", "C", "D", "E", "F", "G", "H", "I", "J", "K", "L", "M", "N", "O",
     "P", "Q", "R", "S", "T", "U", "V", "W", "X", "Y", "Z",
     "0", "1", "2", "3", "4", "5", "6", "7", "8", "9", "*", "-", ".", "_"}

\* The ASCII code of the other characters a parameter of the model can hold.
Escaped == {" ", "#", "%", "&", "+", ",", "/", "=", "?"}

AsciiCode(c) ==
    CASE c = " " -> 32 [] c = "#" -> 35 [] c = "%" -> 37 [] c = "&" -> 38
      [] c = "+" -> 43 [] c = "," -> 44 [] c = "/" -> 47 [] c = "=" -> 61
      [] c = "?" -> 63

HexDigits == <<"0", "1", "2", "3", "4", "5", "6", "7", "8", "9",
               "A", "B", "C", "D", "E", "F">>

\* Faulty variant: every byte is written as it is.
byte_serialize_raw(c) == <<c>>

\* One byte: kept, ' ' as '+', anything else as %XX in upper-case hex.
byte_serialize(c) ==
    IF c \in Unreserved THEN <<c>>
    ELSE IF c = " " THEN <<"+">>
    ELSE <<"%", HexDigits[(AsciiCode(c) \div 16) + 1],
                HexDigits[(AsciiCode(c) % 16) + 1]>>

RECURSIVE urlencode(_)
urlencode(s) ==
    IF s = <<>> THEN <<>> ELSE byte_serialize(Head(s)) \o urlencode(Tail(s))

\* Serializer::append_pair: '&' between pairs, '=' between name and value.
append_pair(target, k, v) ==
    (IF target = <<>> THEN <<>> ELSE target \o <<"&">>)
        \o urlencode(k) \o <<"=">> \o urlencode(v)

RECURSIVE SerializePairs(_, _)
SerializePairs(target, pairs) ==
    IF pairs = <<>> THEN target
    ELSE SerializePairs(append_pair(target, Head(pairs)[1], Head(pairs)[2]),
                        Tail(pairs))

(***************************************************************************)
(* QueryBuilder (src/lib.rs): the parameters are a Vec of pairs.           *)
(***************************************************************************)
\* method_calls counts the calls of method() on the builder; the code keeps no
\* such field, it is there to state how often the endpoint is set.
QueryBuilder_new ==
    [api_ver |-> ApiVer, method |-> <<>>, params |-> <<>>, method_calls |-> 0]

QueryBuilder_method(b, m) ==
    [b EXCEPT !.method = m, !.method_calls = @ + 1]

QueryBuilder_param(b, k, v) == [b EXCEPT !.params = Append(@, <<k, v>>)]

BaseOf(b) == BaseUrl \o b.api_ver \o <<"/">> \o b.method

QueryBuilder_build(b) ==
    IF Len(b.params) = 0 THEN BaseOf(b)
    ELSE BaseOf(b) \o <<"?">> \o SerializePairs(<<>>, b.params)

(***************************************************************************)
(* UriBuilder (src/uri/mod.rs): the parameters are a HashMap, here a       *)
(* function from the keys set to their values.  Its iteration order is not *)
(* fixed by the code: build takes one of the orders 0..MaxSeed.            *)
(***************************************************************************)
UriBuilder_new ==
    [api_ver |-> ApiVer, method |-> <<>>, params |-> <<>>, method_calls |-> 0]

UriBuilder_method(b, m) ==
    [b EXCEPT !.method = m, !.method_calls = @ + 1]

\* Faulty variant: a key already present keeps its old value.
UriBuilder_param_keep_first(b, k, v) == [b EXCEPT !.params = @ @@ (k :> v)]

\* HashMap::insert: a key already present keeps one entry, with the new value.
UriBuilder_param(b, k, v) == [b EXCEPT !.params = (k :> v) @@ @]

AllKeys == <<K_appid, K_units, K_lang, K_q, K_id, K_zip, K_lat, K_lon,
             K_bbox, K_cnt, K_cluster>>

RemoveAt(s, i) == SubSeq(s, 1, i - 1) \o SubSeq(s, i + 1, Len(s))

\* The n-th order of s: n read in the factorial number system.
RECURSIVE NthOrder(_, _)
NthOrder(s, n) ==
    IF s = <<>> THEN <<>>
    ELSE LET i == (n % Len(s)) + 1
         IN  <<s[i]>> \o NthOrder(RemoveAt(s, i), n \div Len(s))

HashMap_iter(m, seed) ==
    LET ks == SelectSeq(AllKeys, LAMBDA k : k \in DOMAIN m)
        order == NthOrder(ks, seed)
    IN  [i \in 1..Len(order) |-> <<order[i], m[order[i]]>>]

\* Faulty variant: the '?' is written whether or not there are parameters.
UriBuilder_build_always_query(b, seed) ==
    BaseOf(b) \o <<"?">> \o SerializePairs(<<>>, HashMap_iter(b.params, seed))

UriBuilder_build(b, seed) ==
    IF Cardinality(DOMAIN b.params) = 0 THEN BaseOf(b)
    ELSE BaseOf(b) \o <<"?">> \o SerializePairs(<<>>, HashMap_iter(b.params, seed))

(***************************************************************************)
(* JSON documents, as serde_json reads them.  A body is                    *)
(* [readable, doc]: readable is FALSE when read_to_string fails (bytes     *)
(* that are not UTF-8, or an I/O error in the middle of the body), and doc *)
(* is the JSON value of the text, or J_invalid for text that is not JSON.  *)
(***************************************************************************)
J_invalid == [t |-> "invalid"]
J_null == [t |-> "null"]
J_int(i) == [t |-> "int", i |-> i]
\* An integer beyond the range of i32, such as 4294967296 * k.
J_wide(k) == [t |-> "wide", k |-> k]
J_float(h) == [t |-> "float", f |-> h]
J_str(s) == [t |-> "str", s |-> s]
J_obj(o) == [t |-> "obj", o |-> o]
J_arr(a) == [t |-> "arr", a |-> a]

Ty(t) == [t |-> t, name |-> ""]
Struct(name) == [t |-> "struct", name |-> name]
VecOf(name) == [t |-> "vec", name |-> name]

\* The fields of each derived Deserialize structure, in declaration order.
\* Every field is an Option of the type given.
Fields(name) ==
    CASE name = "ErrorResponse" ->
            << <<"cod", Ty("i32")>>, <<"message", Ty("String")>> >>
      [] name = "WeatherAggregate" ->
            << <<"message", Ty("String")>>, <<"cod", Ty("i32")>>,
               <<"count", Ty("i32")>>, <<"list", VecOf("WeatherInfo")>> >>
      [] name = "WeatherBoxAggregate" ->
            << <<"cod", Ty("i32")>>, <<"calctime", Ty("f32")>>,
               <<"cnt", Ty("i32")>>, <<"list", VecOf("WeatherInfo")>> >>
      [] name = "WeatherInfo" ->
            << <<"coord", Struct("Coordinates")>>, <<"weather", VecOf("Weather")>>,
               <<"base", Ty("String")>>, <<"main", Struct("Main")>>,
               <<"wind", Struct("Wind")>>, <<"clouds", Struct("Clouds")>>,
               <<"rain", Struct("Rain")>>, <<"snow", Struct("Snow")>>,
               <<"dt", Ty("i64")>>, <<"sys", Struct("Sys")>>,
               <<"id", Ty("i64")>>, <<"name", Ty("String")>>,
               <<"cod", Ty("i32")>> >>
      [] name = "Coordinates" ->
            << <<"lon", Ty("f32")>>, <<"lat", Ty("f32")>> >>
      [] name = "Weather" ->
            << <<"id", Ty("i32")>>, <<"main", Ty("String")>>,
               <<"description", Ty("String")>>, <<"icon", Ty("String")>> >>
      [] name = "Main" ->
            << <<"temp", Ty("f32")>>, <<"pressure", Ty("i32")>>,
               <<"humidity", Ty("i32")>>, <<"temp_min", Ty("f32")>>,
               <<"temp_max", Ty("f32")>>, <<"sea_level", Ty("i32")>>,
               <<"grnd_level", Ty("i32")>> >>
      [] name = "Wind" ->
            << <<"speed", Ty("f32")>>, <<"deg", Ty("i32")>>, <<"gust", Ty("f32")>> >>
      [] name = "Clouds" -> << <<"all", Ty("i32")>> >>
      [] name = "Rain" -> << <<"3h", Ty("i32")>> >>
      [] name = "Snow" -> << <<"3h", Ty("i32")>> >>
      [] name = "Sys" ->
            << <<"type", Ty("i32")>>, <<"id", Ty("i32")>>, <<"message", Ty("f32")>>,
               <<"country", Ty("String")>>, <<"sunrise", Ty("i64")>>,
               <<"sunset", Ty("i64")>> >>

Parsed(v) == [ok |-> TRUE, val |-> v]
ParseError(why) == [ok |-> FALSE, err |-> why]

\* serde's Deserialize for the types of the payloads.  An integer is read
\* into an f32 (as hundredths here), a float is not read into an integer,
\* and an integer that does not fit i32 is not read into an i32;
\* a structure is read from an object (unknown fields skipped, a missing
\* Option field left None) or from an array of exactly its fields.
RECURSIVE Deserialize(_, _)
Deserialize(ty, j) ==
    LET Opt(fty, v) ==
            IF v.t = "null" THEN Parsed(None)
            ELSE LET r == Deserialize(fty, v)
                 IN  IF r.ok THEN Parsed(Some(r.val)) ELSE r
        FromFields(fs, got) ==
            IF \A i \in 1..Len(fs) : got[i].ok
            THEN Parsed([n \in {fs[i][1] : i \in 1..Len(fs)} |->
                            got[CHOOSE i \in 1..Len(fs) : fs[i][1] = n].val])
            ELSE ParseError("data")
    IN
    CASE ty.t = "i32" -> IF j.t = "int" THEN Parsed(j.i) ELSE ParseError("data")
      [] ty.t = "i64" ->
            IF j.t = "int" THEN Parsed(j.i)
            ELSE IF j.t = "wide" THEN Parsed([wide |-> j.k])
            ELSE ParseError("data")
      [] ty.t = "f32" ->
            IF j.t = "float" THEN Parsed(j.f)
            ELSE IF j.t = "int" THEN Parsed(j.i * 100)
            ELSE IF j.t = "wide" THEN Parsed([wide |-> j.k])
            ELSE ParseError("data")
      [] ty.t = "String" -> IF j.t = "str" THEN Parsed(j.s) ELSE ParseError("data")
      [] ty.t = "vec" ->
            IF j.t # "arr" THEN ParseError("data")
            ELSE LET got == [i \in 1..Len(j.a) |-> Deserialize(Struct(ty.name), j.a[i])]
                 IN  IF \A i \in 1..Len(j.a) : got[i].ok
                     THEN Parsed([i \in 1..Len(j.a) |-> got[i].val])
                     ELSE ParseError("data")
      [] ty.t = "struct" ->
            LET fs == Fields(ty.name)
            IN  CASE j.t = "obj" ->
                        FromFields(fs, [i \in 1..Len(fs) |->
                            IF fs[i][1] \in DOMAIN j.o
                            THEN Opt(fs[i][2], j.o[fs[i][1]])
                            ELSE Parsed(None)])
                  [] j.t = "arr" ->
                        IF Len(j.a) # Len(fs) THEN ParseError("data")
                        ELSE FromFields(fs, [i \in 1..Len(fs) |-> Opt(fs[i][2], j.a[i])])
                  [] OTHER -> ParseError("data")

\* Faulty variant: a field that the type does not know is an error.
from_str_deny_unknown_fields(D, text) ==
    IF text.t = "invalid" THEN ParseError("syntax")
    ELSE IF text.t = "obj" /\ \E f \in DOMAIN text.o :
                \A i \in 1..Len(Fields(D)) : Fields(D)[i][1] # f
    THEN ParseError("unknown field")
    ELSE Deserialize(Struct(D), text)

\* Faulty variant: a field that the text does not give is an error.
from_str_missing_is_error(D, text) ==
    IF text.t = "invalid" THEN ParseError("syntax")
    ELSE IF text.t = "obj"
            /\ \E i \in 1..Len(Fields(D)) : Fields(D)[i][1] \notin DOMAIN text.o
    THEN ParseError("missing field")
    ELSE Deserialize(Struct(D), text)

\* json::from_str::<D>(text)
from_str(D, text) ==
    IF text.t = "invalid" THEN ParseError("syntax") ELSE Deserialize(Struct(D), text)

\* Read::read_to_string into a fresh String.
read_to_string(body) ==
    IF body.readable THEN [ok |-> TRUE, text |-> body.doc] ELSE [ok |-> FALSE]

\* hyper's StatusCode::is_success: the 2xx class.
is_success(status) == status >= 200 /\ status <= 299

(***************************************************************************)
(* run_query, from the answer of send() on: the match on req_result.  The  *)
(* value is the outcome handed back to the caller (kind "panic" when an    *)
(* unwrap aborts the call instead) and the steps taken on the body.  The   *)
(* response moved into Ok and Failure has had its body read to the end.    *)
(***************************************************************************)
Drained(res) == [status |-> res.status, unread |-> None]

\* The Ok(mut res) arm of the match.
classify(res, D) ==
    LET rd == read_to_string(res.body)
    IN
    IF ~is_success(res.status)
    THEN IF ~rd.ok
         THEN [out |-> [kind |-> "panic"], steps |-> <<"read_to_string">>]
         ELSE LET p == from_str("ErrorResponse", rd.text)
              IN  [out |-> IF p.ok
                           THEN [kind |-> "BadRequest", serr |-> p.val]
                           ELSE [kind |-> "Failure", res |-> Drained(res)],
                   steps |-> <<"read_to_string", "from_str::<ErrorResponse>">>]
    ELSE IF ~rd.ok
         THEN [out |-> [kind |-> "panic"], steps |-> <<"read_to_string">>]
         ELSE LET p == from_str(D, rd.text)
              IN  [out |-> IF p.ok
                           THEN [kind |-> "Ok", res |-> Drained(res), decoded |-> p.val]
                           ELSE [kind |-> "JsonDecodeError", json_resp |-> rd.text,
                                 err |-> p.err],
                   steps |-> <<"read_to_string", "from_str::<D>">>]

\* Faulty variant: a body that cannot be read is reported as a transport error.
run_query_read_error_as_http(req_result, D) ==
    IF req_result.err
    THEN [out |-> [kind |-> "HttpError", err |-> req_result.cause], steps |-> <<>>]
    ELSE IF ~req_result.body.readable
    THEN [out |-> [kind |-> "HttpError", err |-> "io"], steps |-> <<"read_to_string">>]
    ELSE classify(req_result, D)

\* Faulty variant: a failed send() is tried a second time before giving up.
run_query_retry(req_result, D) ==
    IF req_result.err
    THEN [out |-> [kind |-> "HttpError", err |-> req_result.cause],
          steps |-> <<"request">>]
    ELSE classify(req_result, D)

run_query(req_result, D) ==
    IF req_result.err
    THEN [out |-> [kind |-> "HttpError", err |-> req_result.cause], steps |-> <<>>]
    ELSE classify(req_result, D)

(***************************************************************************)
(* The inputs the callers and the transport draw from.                     *)
(***************************************************************************)
S_Pisa == <<"P", "i", "s", "a">>
S_IT == <<"I", "T">>
\* A city name that would add a parameter if it were not escaped.
S_inject == <<"a", "&", "a", "p", "p", "i", "d", "=", "z">>

Keys == {<<"k", "&", "2">>}
Cities == {S_Pisa, S_inject}
Countries == {None, Some(S_IT)}
Ids == {6542122, -7}
Zips == {56124}
Lats == {Finite(4371)}
Lons == {Finite(1041)}
Boxes ==
    {[top |-> Finite(4373), bottom |-> Finite(4370),
      left |-> Finite(1038), right |-> Finite(1042)],
     [top |-> Finite(900), bottom |-> Finite(-950),
      left |-> Finite(-18000), right |-> Finite(5)]}
Zooms == {10}
Counts == {10}
UnitsValues == {"Metric", "Imperial"}
Langs == {<<"z", " ", "h">>}

B_binary == [readable |-> FALSE, doc |-> J_invalid]
B_html == [readable |-> TRUE, doc |-> J_invalid]
B_empty == [readable |-> TRUE, doc |-> J_obj(<<>>)]
\* {"cod":"404","message":"city not found"}
B_not_found == [readable |-> TRUE, doc |->
    J_obj("cod" :> J_str("404") @@ "message" :> J_str("city not found"))]
\* {"cod":401,"message":"Invalid API key"}
B_bad_key == [readable |-> TRUE, doc |->
    J_obj("cod" :> J_int(401) @@ "message" :> J_str("Invalid API key"))]
\* {"name":"Pisa","coord":{"lat":43.71,"lon":10.41}}
B_pisa == [readable |-> TRUE, doc |->
    J_obj("name" :> J_str("Pisa")
          @@ "coord" :> J_obj("lat" :> J_float(4371) @@ "lon" :> J_float(1041)))]
\* {"cod":null,"message":null}
B_nulls == [readable |-> TRUE, doc |-> J_obj("cod" :> J_null @@ "message" :> J_null)]
\* {"cod":4294967296,"message":"city not found"}
B_wide_cod == [readable |-> TRUE, doc |->
    J_obj("cod" :> J_wide(1) @@ "message" :> J_str("city not found"))]
\* {"name":5}
B_name_5 == [readable |-> TRUE, doc |-> J_obj("name" :> J_int(5))]
\* {"cnt":1,"list":[{"name":"Pisa"}]}
B_list == [readable |-> TRUE, doc |->
    J_obj("cnt" :> J_int(1)
          @@ "list" :> J_arr(<< J_obj("name" :> J_str("Pisa")) >>))]
\* [404,"not found"]
B_array == [readable |-> TRUE, doc |-> J_arr(<< J_int(404), J_str("not found") >>)]

Bodies == <<B_binary, B_html, B_empty, B_not_found, B_bad_key, B_pisa,
            B_name_5, B_list, B_array, B_nulls, B_wide_cod>>
Statuses == {200, 404}

\* What send() gives back: a transport error, or a response.
TransportError(why) == [err |-> TRUE, cause |-> why]
Response(status, body) == [err |-> FALSE, status |-> status, body |-> body]

NoCall == [q |-> 0, name |-> "", payload |-> ""]
NoFrame == [live |-> FALSE]
NoResponse == [err |-> FALSE, status |-> 0, body |-> B_empty]
NoResult == [kind |-> "none"]

(***************************************************************************)
(* The builder of the running revision.                                    *)
(***************************************************************************)
Builder_new == IF revision = "lib" THEN QueryBuilder_new ELSE UriBuilder_new

Builder_method(b, m) ==
    IF revision = "lib" THEN QueryBuilder_method(b, m) ELSE UriBuilder_method(b, m)

Builder_param(b, k, v) ==
    IF revision = "lib" THEN QueryBuilder_param(b, k, v) ELSE UriBuilder_param(b, k, v)

Builder_build(b, seed) ==
    IF revision = "lib" THEN QueryBuilder_build(b) ELSE UriBuilder_build(b, seed)

\* The hash seeds build can meet: the Vec of src/lib.rs has one order.
Seeds == IF revision = "lib" THEN {0} ELSE 0..MaxSeed

(***************************************************************************)
(* WeatherHub::current and the URL each terminal method builds.            *)
(***************************************************************************)
\* Faulty variant: the query starts from a builder without the key.
WeatherHub_current_no_key == Builder_new

\* Faulty variant: the hub hands out the builder of a query it made before.
WeatherHub_current_shared ==
    IF DOMAIN queries = {} THEN Builder_param(Builder_new, K_appid, key)
    ELSE queries[CHOOSE q \in DOMAIN queries : TRUE]

WeatherHub_current == Builder_param(Builder_new, K_appid, key)

\* Faulty variant: the flag is sent as the Display of the bool.
ClusterValue_display(cluster) ==
    IF cluster THEN <<"t", "r", "u", "e">> ELSE <<"f", "a", "l", "s", "e">>

\* if cluster { "yes" } else { "no" }
ClusterValue(cluster) == IF cluster THEN V_yes ELSE V_no

\* Each terminal method: the builder as it stands when build() is called.
by_name_builder(b, city, country) ==
    LET q == IF country.some THEN FormatPair(city, country.v) ELSE city
    IN  Builder_param(Builder_method(b, E_weather), K_q, q)

by_id_builder(b, id) ==
    Builder_param(Builder_method(b, E_weather), K_id, i32_to_string(id))

\* Faulty variant: the country code is left out of zip.
by_zip_code_builder_no_country(b, zip, country) ==
    Builder_param(Builder_method(b, E_weather), K_zip, i32_to_string(zip))

by_zip_code_builder(b, zip, country) ==
    LET q == IF country.some THEN FormatPair(i32_to_string(zip), country.v)
             ELSE i32_to_string(zip)
    IN  Builder_param(Builder_method(b, E_weather), K_zip, q)

by_coords_builder(b, lat, lon) ==
    Builder_param(
        Builder_param(Builder_method(b, E_weather), K_lat, f32_to_string(lat)),
        K_lon, f32_to_string(lon))

\* Faulty variant: the values in the order the fields of BoundingBox are declared.
bbox_value_declared_order(bbox, zoom) ==
    f32_to_string(bbox.top) \o <<",">> \o f32_to_string(bbox.bottom) \o <<",">>
        \o f32_to_string(bbox.left) \o <<",">> \o f32_to_string(bbox.right)
        \o <<",">> \o i32_to_string(zoom)

\* format!("{},{},{},{},{}", bbox.left, bbox.bottom, bbox.right, bbox.top, zoom)
bbox_value(bbox, zoom) ==
    f32_to_string(bbox.left) \o <<",">> \o f32_to_string(bbox.bottom) \o <<",">>
        \o f32_to_string(bbox.right) \o <<",">> \o f32_to_string(bbox.top)
        \o <<",">> \o i32_to_string(zoom)

by_bounds_builder(b, bbox, zoom, cluster) ==
    Builder_param(
        Builder_param(Builder_method(b, E_box_city), K_bbox, bbox_value(bbox, zoom)),
        K_cluster, ClusterValue(cluster))

\* Faulty variant: by_circle sends to the endpoint of the single-location modes.
by_circle_builder_weather(b, lat, lon, count, cluster) ==
    Builder_param(
        Builder_param(
            Builder_param(
                Builder_param(Builder_method(b, E_weather), K_lat, f32_to_string(lat)),
                K_lon, f32_to_string(lon)),
            K_cnt, i32_to_string(count)),
        K_cluster, ClusterValue(cluster))

by_circle_builder(b, lat, lon, count, cluster) ==
    Builder_param(
        Builder_param(
            Builder_param(
                Builder_param(Builder_method(b, E_find), K_lat, f32_to_string(lat)),
                K_lon, f32_to_string(lon)),
            K_cnt, i32_to_string(count)),
        K_cluster, ClusterValue(cluster))

(***************************************************************************)
(* The state machine.                                                      *)
(***************************************************************************)
\* RefCell::borrow_mut on hub.client: takes the cell for writing, and panics
\* ("already borrowed") when it is taken.
RefCell_borrow_mut(flag) ==
    IF flag = "unused" THEN [ok |-> TRUE, flag |-> "writing"]
    ELSE [ok |-> FALSE, flag |-> flag]

\* Faulty variant: the RefMut is leaked, the cell stays taken.
RefMut_drop_leaked(flag) == flag

\* The RefMut temporary dies at the end of the statement that sent the request.
RefMut_drop(flag) == "unused"

HubInit ==
    /\ key \in Keys
    /\ borrow = "unused"
    /\ created = 0
    /\ queries = <<>>
    /\ mods = <<>>
    /\ pc = "idle"
    /\ call = NoCall
    /\ frame = NoFrame
    /\ wire = <<>>
    /\ response = NoResponse
    /\ result = NoResult
    /\ trace = <<>>

NoBuilder ==
    /\ ub_state = "none"
    /\ ub = None
    /\ ub_log = <<>>
    /\ ub_url = None

Init ==
    /\ revision \in {"lib", "current"}
    /\ HubInit
    /\ ub_file = "uri/mod.rs"
    /\ NoBuilder

\* hub.current(): a new query whose builder holds the key.
Current ==
    /\ pc = "idle"
    /\ created < MaxQueries
    /\ created' = created + 1
    /\ queries' = (created + 1 :> WeatherHub_current) @@ queries
    /\ mods' = (created + 1 :> <<>>) @@ mods
    /\ UNCHANGED <<revision, key, borrow, pc, call, frame, wire, response, result, trace>>
    /\ UNCHANGED ubVars

UnitsParam(u) == IF u = "Metric" THEN V_metric ELSE V_imperial

\* query.units(u), of the revision with modifiers.
Units(q, u) ==
    /\ pc = "idle"
    /\ revision = "current"
    /\ q \in DOMAIN queries
    /\ queries' = [queries EXCEPT ![q] = Builder_param(@, K_units, UnitsParam(u))]
    /\ mods' = [mods EXCEPT ![q] = [k \in DOMAIN @ \cup {K_units} |->
                                        IF k = K_units THEN UnitsParam(u) ELSE @[k]]]
    /\ UNCHANGED <<revision, key, borrow, created, pc, call, frame, wire, response,
                   result, trace>>
    /\ UNCHANGED ubVars

\* query.lang(code), of the revision with modifiers.
Lang(q, l) ==
    /\ pc = "idle"
    /\ revision = "current"
    /\ q \in DOMAIN queries
    /\ queries' = [queries EXCEPT ![q] = Builder_param(@, K_lang, l)]
    /\ mods' = [mods EXCEPT ![q] = [k \in DOMAIN @ \cup {K_lang} |->
                                        IF k = K_lang THEN l ELSE @[k]]]
    /\ UNCHANGED <<revision, key, borrow, created, pc, call, frame, wire, response,
                   result, trace>>
    /\ UNCHANGED ubVars

\* The terminal method takes the query by value, builds the URL and run_query
\* borrows the client and sends the GET: the call then blocks until the
\* transport answers.
Send(q, name, payload, args, built) ==
    /\ pc = "idle"
    /\ q \in DOMAIN queries
    /\ queries' = [x \in DOMAIN queries \ {q} |-> queries[x]]
    /\ mods' = [x \in DOMAIN mods \ {q} |-> mods[x]]
    /\ call' = [q |-> q, name |-> name, payload |-> payload]
    /\ LET cell == RefCell_borrow_mut(borrow)
       IN  /\ borrow' = cell.flag
           /\ IF cell.ok
              THEN /\ \E seed \in Seeds : wire' = Builder_build(built, seed)
                   /\ frame' = [live |-> TRUE, args |-> args, builder |-> built,
                                mods |-> mods[q]]
                   /\ trace' = <<"request">>
                   /\ pc' = "waiting"
                   /\ result' = result
              ELSE /\ wire' = <<>>
                   /\ frame' = NoFrame
                   /\ trace' = <<"borrow_mut">>
                   /\ pc' = "panicked"
                   /\ result' = [kind |-> "panic"]
    /\ UNCHANGED <<revision, key, created, response>>
    /\ UNCHANGED ubVars

by_name(q, city, country) ==
    Send(q, "by_name", "WeatherInfo", [city |-> city, country |-> country],
         by_name_builder(queries[q], city, country))

by_id(q, id) ==
    Send(q, "by_id", "WeatherInfo", [id |-> id], by_id_builder(queries[q], id))

by_zip_code(q, zip, country) ==
    Send(q, "by_zip_code", "WeatherInfo", [zip |-> zip, country |-> country],
         by_zip_code_builder(queries[q], zip, country))

by_coords(q, lat, lon) ==
    Send(q, "by_coords", "WeatherInfo", [lat |-> lat, lon |-> lon],
         by_coords_builder(queries[q], lat, lon))

by_bounds(q, bbox, zoom, cluster) ==
    Send(q, "by_bounds", "WeatherBoxAggregate",
         [bbox |-> bbox, zoom |-> zoom, cluster |-> cluster],
         by_bounds_builder(queries[q], bbox, zoom, cluster))

by_circle(q, lat, lon, count, cluster) ==
    Send(q, "by_circle", "WeatherAggregate",
         [lat |-> lat, lon |-> lon, count |-> count, cluster |-> cluster],
         by_circle_builder(queries[q], lat, lon, count, cluster))

\* The transport answers, the borrow of the client ends, and run_query
\* classifies the answer; the call returns its outcome, or the thread panics.
Return(req_result) ==
    /\ pc = "waiting"
    /\ borrow' = RefMut_drop(borrow)
    /\ LET r == run_query(req_result, call.payload)
       IN  /\ result' = r.out
           /\ trace' = trace \o r.steps
           /\ pc' = IF r.out.kind = "panic" THEN "panicked" ELSE "returned"
    /\ response' = req_result
    /\ frame' = NoFrame
    /\ wire' = <<>>
    /\ UNCHANGED <<revision, key, created, queries, mods, call>>
    /\ UNCHANGED ubVars

\* The caller has matched on the value the call returned and lets it go.
Drop ==
    /\ pc = "returned"
    /\ pc' = "idle"
    /\ call' = NoCall
    /\ response' = NoResponse
    /\ result' = NoResult
    /\ trace' = <<>>
    /\ UNCHANGED <<revision, key, borrow, created, queries, mods, frame, wire>>
    /\ UNCHANGED ubVars

Qs == 1..MaxQueries

Next ==
    \/ Current
    \/ \E q \in Qs, u \in UnitsValues : Units(q, u)
    \/ \E q \in Qs, l \in Langs : Lang(q, l)
    \/ \E q \in Qs, city \in Cities, country \in Countries : by_name(q, city, country)
    \/ \E q \in Qs, id \in Ids : by_id(q, id)
    \/ \E q \in Qs, zip \in Zips, country \in Countries : by_zip_code(q, zip, country)
    \/ \E q \in Qs, lat \in Lats, lon \in Lons : by_coords(q, lat, lon)
    \/ \E q \in Qs, bbox \in Boxes, zoom \in Zooms, cluster \in BOOLEAN :
            by_bounds(q, bbox, zoom, cluster)
    \/ \E q \in Qs, lat \in Lats, lon \in Lons, count \in Counts, cluster \in BOOLEAN :
            by_circle(q, lat, lon, count, cluster)
    \/ Return(TransportError("connection refused"))
    \/ \E status \in Statuses, i \in 1..Len(Bodies) : Return(Response(status, Bodies[i]))
    \/ Drop

Spec == Init /\ [][Next]_vars

(***************************************************************************)
(* A UriBuilder used on its own, through its public methods.  In           *)
(* src/uri.rs build takes self and the builder is gone after it; in        *)
(* src/uri/mod.rs build takes &mut self and the builder stays usable.      *)
(***************************************************************************)
\* Calls made on one builder in a behaviour.
MaxOps == 4

UbMethods == {E_weather, E_find}
UbKeys == {K_appid, K_units}
UbValues == {V_metric, V_imperial}

LogEntry(op, a, b) == [op |-> op, a |-> a, b |-> b]

BuilderInit ==
    /\ revision = "current"
    /\ HubInit
    /\ ub_file \in {"uri.rs", "uri/mod.rs"}
    /\ NoBuilder

\* UriBuilder::new()
Ub_new ==
    /\ ub_state = "none"
    /\ ub_state' = "live"
    /\ ub' = UriBuilder_new
    /\ UNCHANGED <<ub_file, ub_log, ub_url>>
    /\ UNCHANGED hubVars

\* builder.method(m)
Ub_method(m) ==
    /\ ub_state = "live"
    /\ Len(ub_log) < MaxOps
    /\ ub' = UriBuilder_method(ub, m)
    /\ ub_log' = Append(ub_log, LogEntry("method", m, <<>>))
    /\ UNCHANGED <<ub_file, ub_state, ub_url>>
    /\ UNCHANGED hubVars

\* builder.param(k, v)
Ub_param(k, v) ==
    /\ ub_state = "live"
    /\ Len(ub_log) < MaxOps
    /\ ub' = UriBuilder_param(ub, k, v)
    /\ ub_log' = Append(ub_log, LogEntry("param", k, v))
    /\ UNCHANGED <<ub_file, ub_state, ub_url>>
    /\ UNCHANGED hubVars

\* builder.build(): by value in src/uri.rs, through &mut self in src/uri/mod.rs.
Ub_build ==
    /\ ub_state = "live"
    /\ Len(ub_log) < MaxOps
    /\ \E seed \in 0..MaxSeed : ub_url' = Some(UriBuilder_build(ub, seed))
    /\ ub_log' = Append(ub_log, LogEntry("build", <<>>, <<>>))
    /\ ub_state' = IF ub_file = "uri.rs" THEN "moved" ELSE "live"
    /\ UNCHANGED <<ub_file, ub>>
    /\ UNCHANGED hubVars

BuilderNext ==
    \/ Ub_new
    \/ \E m \in UbMethods : Ub_method(m)
    \/ \E k \in UbKeys, v \in UbValues : Ub_param(k, v)
    \/ Ub_build

BuilderSpec == BuilderInit /\ [][BuilderNext]_vars

(***************************************************************************)
(* Reading a URL back, as the server does: the path, and the query string  *)
(* decoded by the inverse of form-urlencoding (url::form_urlencoded::parse)*)
(***************************************************************************)
FirstIndex(s, c) ==
    IF \E i \in 1..Len(s) : s[i] = c
    THEN CHOOSE i \in 1..Len(s) : s[i] = c /\ \A j \in 1..(i - 1) : s[j] # c
    ELSE 0

RECURSIVE SplitOn(_, _)
SplitOn(s, c) ==
    LET i == FirstIndex(s, c)
    IN  IF i = 0 THEN <<s>>
        ELSE <<SubSeq(s, 1, i - 1)>> \o SplitOn(SubSeq(s, i + 1, Len(s)), c)

HexValue(c) == (CHOOSE i \in 1..16 : HexDigits[i] = c) - 1

ByteOf(hi, lo) ==
    LET n == 16 * HexValue(hi) + HexValue(lo)
    IN  IF \E c \in Escaped : AsciiCode(c) = n
        THEN CHOOSE c \in Escaped : AsciiCode(c) = n
        ELSE "?"

RECURSIVE urldecode(_)
urldecode(s) ==
    IF s = <<>> THEN <<>>
    ELSE IF Head(s) = "+" THEN <<" ">> \o urldecode(Tail(s))
    ELSE IF Head(s) = "%" /\ Len(s) >= 3
              /\ \A i \in 2..3 : \E d \in 1..16 : HexDigits[d] = s[i]
         THEN <<ByteOf(s[2], s[3])>> \o urldecode(SubSeq(s, 4, Len(s)))
    ELSE <<Head(s)>> \o urldecode(Tail(s))

PathOf(url) ==
    LET i == FirstIndex(url, "?")
    IN  IF i = 0 THEN url ELSE SubSeq(url, 1, i - 1)

QueryOf(url) ==
    LET i == FirstIndex(url, "?")
    IN  IF i = 0 THEN <<>> ELSE SubSeq(url, i + 1, Len(url))

\* The decoded (name, value) pairs of the query string, in the order sent.
ParamsOf(url) ==
    LET segs == SelectSeq(SplitOn(QueryOf(url), "&"), LAMBDA s : s # <<>>)
        pair(s) ==
            LET i == FirstIndex(s, "=")
            IN  IF i = 0 THEN <<urldecode(s), <<>> >>
                ELSE <<urldecode(SubSeq(s, 1, i - 1)),
                       urldecode(SubSeq(s, i + 1, Len(s)))>>
    IN  [i \in 1..Len(segs) |-> pair(segs[i])]

\* The values the URL gives for one name, and the names it gives.
ValuesOf(url, k) ==
    LET ps == SelectSeq(ParamsOf(url), LAMBDA p : p[1] = k)
    IN  [i \in 1..Len(ps) |-> ps[i][2]]

NamesOf(url) == {ParamsOf(url)[i][1] : i \in 1..Len(ParamsOf(url))}

\* The endpoint: what follows http://api.openweathermap.org/data/2.5/ in the path.
EndpointOf(url) ==
    LET prefix == BaseUrl \o ApiVer \o <<"/">>
        path == PathOf(url)
    IN  IF Len(path) >= Len(prefix) /\ SubSeq(path, 1, Len(prefix)) = prefix
        THEN SubSeq(path, Len(prefix) + 1, Len(path))
        ELSE <<"?">>

Returned == pc = "returned"
Ended == pc \in {"returned", "panicked"}
Waiting == pc = "waiting"

\* What a body gives when it is read as text and parsed as D.
BodyParsedAs(D, body) ==
    IF body.readable THEN from_str(D, body.doc) ELSE ParseError("unreadable")

FiveOutcomes == {"Ok", "HttpError", "BadRequest", "Failure", "JsonDecodeError"}

(***************************************************************************)
(* C1: every terminal call ends by returning one of the five outcomes, for *)
(* every answer of the transport; no call ends in a panic.                 *)
(***************************************************************************)
C1_ClassificationComplete ==
    /\ pc # "panicked"
    /\ Returned => result.kind \in FiveOutcomes

(***************************************************************************)
(* C2: with a non-success status the call ends in BadRequest carrying the  *)
(* parsed error when the body parses as ErrorResponse and in Failure when  *)
(* it does not; never in success or JsonDecodeError.                       *)
(***************************************************************************)
C2_NonSuccessStatus ==
    (Ended /\ ~response.err /\ ~is_success(response.status)) =>
        LET p == BodyParsedAs("ErrorResponse", response.body)
        IN  /\ p.ok => result = [kind |-> "BadRequest", serr |-> p.val]
            /\ ~p.ok => result.kind = "Failure"
            /\ result.kind \notin {"Ok", "JsonDecodeError"}

(***************************************************************************)
(* C3: with a success status, a body that does not parse as the payload    *)
(* type of the method ends in JsonDecodeError carrying the body text as    *)
(* received and the parse error, and the call ends in success, with the    *)
(* decoded payload, exactly when the body parses.                          *)
(***************************************************************************)
C3_SuccessStatus ==
    (Ended /\ ~response.err /\ is_success(response.status)) =>
        LET p == BodyParsedAs(call.payload, response.body)
        IN  /\ ~p.ok => /\ result.kind = "JsonDecodeError"
                        /\ result.json_resp = response.body.doc
                        /\ result.err = p.err
            /\ p.ok => result.kind = "Ok" /\ result.decoded = p.val

(***************************************************************************)
(* C4: by_id answered 404 with {"cod":"404","message":"city not found"}    *)
(* ends in BadRequest whose message is "city not found".                   *)
(***************************************************************************)
C4_CityNotFound ==
    (Ended /\ call.name = "by_id" /\ response = Response(404, B_not_found)) =>
        /\ result.kind = "BadRequest"
        /\ result.serr["message"] = Some("city not found")

(***************************************************************************)
(* C5: a call ends in HttpError exactly when the transport failed before   *)
(* any response; it then carries the transport error and no body was read  *)
(* or parsed.                                                              *)
(***************************************************************************)
C5_HttpError ==
    Ended =>
        /\ response.err <=> result.kind = "HttpError"
        /\ response.err => result.err = response.cause /\ trace = <<"request">>

C5_Witness == Returned /\ response.err /\ result.kind = "HttpError"

(***************************************************************************)
(* C6: every URL sent to the transport names appid exactly once, with the  *)
(* key of the hub as its value, whatever the lookup mode and modifiers.    *)
(***************************************************************************)
C6_AppidOnce == Waiting => ValuesOf(wire, K_appid) = <<key>>

C6_Witness ==
    /\ Waiting
    /\ call.name = "by_name"
    /\ frame.args.city = S_inject
    /\ {K_units, K_lang} \subseteq NamesOf(wire)

(***************************************************************************)
(* C7: by_name, by_id, by_zip_code and by_coords send to the endpoint      *)
(* weather, by_bounds to box/city and by_circle to find, and the endpoint  *)
(* is set exactly once on the builder of the query.                        *)
(***************************************************************************)
EndpointFor(name) ==
    CASE name = "by_bounds" -> <<"b", "o", "x", "/", "c", "i", "t", "y">>
      [] name = "by_circle" -> <<"f", "i", "n", "d">>
      [] OTHER -> <<"w", "e", "a", "t", "h", "e", "r">>

C7_EndpointRouting ==
    Waiting =>
        /\ EndpointOf(wire) = EndpointFor(call.name)
        /\ frame.builder.method_calls = 1

C7_Witness == Waiting /\ call.name = "by_circle" /\ EndpointOf(wire) = E_find

(***************************************************************************)
(* C8: by_name sends q as the city alone without a country and as          *)
(* "<city>,<country>" with one; by_zip_code sends zip as the decimal zip   *)
(* alone or "<zip>,<country>"; no other parameter carries the country.     *)
(***************************************************************************)
WithCountry(first, country) ==
    IF country.some THEN first \o <<",">> \o country.v ELSE first

C8_OptionalCountry ==
    /\ (Waiting /\ call.name = "by_name") =>
          /\ ValuesOf(wire, K_q) = <<WithCountry(frame.args.city, frame.args.country)>>
          /\ NamesOf(wire) \subseteq {K_q, K_appid, K_units, K_lang}
    /\ (Waiting /\ call.name = "by_zip_code") =>
          /\ ValuesOf(wire, K_zip) =
                <<WithCountry(i32_to_string(frame.args.zip), frame.args.country)>>
          /\ NamesOf(wire) \subseteq {K_zip, K_appid, K_units, K_lang}
    /\ (Waiting /\ call.name \in {"by_name", "by_zip_code"}) =>
          /\ ValuesOf(wire, K_appid) = <<key>>
          /\ \A i \in 1..Len(ValuesOf(wire, K_units)) :
                ValuesOf(wire, K_units)[i] \in {V_metric, V_imperial}
          /\ \A i \in 1..Len(ValuesOf(wire, K_lang)) :
                ValuesOf(wire, K_lang)[i] \in Langs
    /\ (Waiting /\ call.name = "by_name" /\ frame.args.city = S_Pisa) =>
          ValuesOf(wire, K_q) =
              IF frame.args.country.some
              THEN << <<"P", "i", "s", "a", ",", "I", "T">> >>
              ELSE << <<"P", "i", "s", "a">> >>
    /\ (Waiting /\ call.name = "by_zip_code" /\ frame.args.zip = 56124) =>
          ValuesOf(wire, K_zip) =
              IF frame.args.country.some
              THEN << <<"5", "6", "1", "2", "4", ",", "I", "T">> >>
              ELSE << <<"5", "6", "1", "2", "4">> >>

C8_Witness ==
    /\ Waiting
    /\ call.name = "by_zip_code"
    /\ frame.args.country = Some(S_IT)
    /\ ValuesOf(wire, K_zip) = << <<"5", "6", "1", "2", "4", ",", "I", "T">> >>

(***************************************************************************)
(* C9: by_bounds sends bbox as left,bottom,right,top,zoom, in that order:  *)
(* the box {top 43.73, bottom 43.7, left 10.38, right 10.42} with zoom 10  *)
(* gives "10.38,43.7,10.42,43.73,10".                                      *)
(***************************************************************************)
TestBox ==
    [top |-> Finite(4373), bottom |-> Finite(4370),
     left |-> Finite(1038), right |-> Finite(1042)]

C9_BboxOrder ==
    (Waiting /\ call.name = "by_bounds") =>
        LET a == frame.args
            parts == SplitOn(ValuesOf(wire, K_bbox)[1], ",")
        IN  /\ Len(ValuesOf(wire, K_bbox)) = 1
            /\ parts = <<f32_to_string(a.bbox.left), f32_to_string(a.bbox.bottom),
                         f32_to_string(a.bbox.right), f32_to_string(a.bbox.top),
                         i32_to_string(a.zoom)>>
            /\ (a.bbox = TestBox /\ a.zoom = 10) =>
                  ValuesOf(wire, K_bbox)[1] =
                      <<"1", "0", ".", "3", "8", ",", "4", "3", ".", "7", ",",
                        "1", "0", ".", "4", "2", ",", "4", "3", ".", "7", "3", ",",
                        "1", "0">>

C9_Witness ==
    /\ Waiting
    /\ call.name = "by_bounds"
    /\ frame.args.bbox = TestBox
    /\ frame.args.zoom = 10
    /\ Len(ValuesOf(wire, K_bbox)) = 1

(***************************************************************************)
(* C10: by_bounds and by_circle always send cluster, as "yes" for true and *)
(* "no" for false, never "true" or "false"; no other method sends cluster. *)
(***************************************************************************)
C10_ClusterFlag ==
    Waiting =>
        IF call.name \in {"by_bounds", "by_circle"}
        THEN ValuesOf(wire, K_cluster) =
                IF frame.args.cluster THEN << <<"y", "e", "s">> >>
                ELSE << <<"n", "o">> >>
        ELSE K_cluster \notin NamesOf(wire)

C10_Witness ==
    /\ Waiting
    /\ call.name = "by_bounds"
    /\ frame.args.cluster
    /\ ValuesOf(wire, K_cluster) = <<V_yes>>

(***************************************************************************)
(* Reading the log of a builder used on its own.                           *)
(***************************************************************************)
\* The value of the last param(k, _) of a log, None when there is none.
LastParam(log, k) ==
    LET calls == {i \in 1..Len(log) : log[i].op = "param" /\ log[i].a = k}
    IN  IF calls = {} THEN None
        ELSE Some(log[CHOOSE i \in calls : \A j \in calls : j <= i].b)

\* The last call was build: ub_url is the URL of the builder as it stands.
JustBuilt == ub_log # <<>> /\ ub_log[Len(ub_log)].op = "build"

PairsOf(b) ==
    IF revision = "lib" THEN {b.params[i] : i \in 1..Len(b.params)}
    ELSE {<<k, b.params[k]>> : k \in DOMAIN b.params}

CountOf(b) ==
    IF revision = "lib" THEN Len(b.params) ELSE Cardinality(DOMAIN b.params)

(***************************************************************************)
(* C12: query-string round trip.  Decoding the query string of the URL     *)
(* that build returned gives exactly the pairs the builder held: none      *)
(* lost, added, repeated or altered, in whatever order they were written.  *)
(***************************************************************************)
C12_RoundTrip ==
    Waiting =>
        LET ps == ParamsOf(wire)
        IN  /\ {ps[i] : i \in 1..Len(ps)} = PairsOf(frame.builder)
            /\ Len(ps) = CountOf(frame.builder)

\* A city name holding '&' and '=', a language holding a space, and an
\* order of the HashMap that does not start with appid.
C12_Witness ==
    /\ Waiting
    /\ revision = "current"
    /\ call.name = "by_name"
    /\ frame.args.city = S_inject
    /\ K_lang \in NamesOf(wire)
    /\ ParamsOf(wire)[1][1] # K_appid

\* http://api.openweathermap.org/data/2.5/<endpoint>, written out.
ExpectedBase(endpoint) ==
    <<"h", "t", "t", "p", ":", "/", "/">>
    \o <<"a", "p", "i", ".", "o", "p", "e", "n", "w", "e", "a", "t", "h", "e", "r",
         "m", "a", "p", ".", "o", "r", "g">>
    \o <<"/", "d", "a", "t", "a", "/", "2", ".", "5", "/">> \o endpoint

(***************************************************************************)
(* C13: build returns http://api.openweathermap.org/data/2.5/<endpoint>    *)
(* and nothing more (no '?') when the builder holds no parameter, and that *)
(* text, a '?' and a non-empty query string when it holds at least one;    *)
(* the version is 2.5 in every URL.                                        *)
(***************************************************************************)
C13_UrlShape ==
    JustBuilt =>
        LET url == ub_url.v
            base == ExpectedBase(ub.method)
        IN  IF DOMAIN ub.params = {}
            THEN url = base /\ FirstIndex(url, "?") = 0
            ELSE /\ Len(url) > Len(base) + 1
                 /\ SubSeq(url, 1, Len(base) + 1) = base \o <<"?">>
                 /\ QueryOf(url) # <<>>
                 /\ FirstIndex(QueryOf(url), "?") = 0

\* The case no query of the hub produces: an endpoint and no parameter.
C13_Witness ==
    /\ JustBuilt
    /\ ub.method = E_find
    /\ DOMAIN ub.params = {}
    /\ ub_url.v = ExpectedBase(E_find)

\* How many GETs a trace holds.
Requests(t) == Len(SelectSeq(t, LAMBDA x : x = "request"))

(***************************************************************************)
(* C14: one request per call, no retry.  While a terminal call waits for   *)
(* the transport it has sent one GET; when it has ended, with any of the   *)
(* five outcomes or in a panic, it has still sent that one GET and no      *)
(* other, and the steps after it are only reading and parsing the body.    *)
(***************************************************************************)
C14_OneRequest ==
    /\ Waiting => trace = <<"request">>
    /\ Ended =>
          /\ Requests(trace) = 1
          /\ trace[1] = "request"
          /\ result.kind = "HttpError" => trace = <<"request">>

\* A Failure, returned after the one GET and the reading of its body.
C14_Witness ==
    /\ Returned
    /\ result.kind = "Failure"
    /\ trace = <<"request", "read_to_string", "from_str::<ErrorResponse>">>

(***************************************************************************)
(* C15: builder lifecycle.  build is the last call made on a builder:      *)
(* after it neither method, param nor a second build acts on that builder. *)
(***************************************************************************)
C15_BuilderLifecycle ==
    \A i \in 1..Len(ub_log) : ub_log[i].op = "build" => i = Len(ub_log)

(***************************************************************************)
(* Comparing a decoded payload with the JSON text it was decoded from.     *)
(***************************************************************************)
FieldNames(name) == {Fields(name)[i][1] : i \in 1..Len(Fields(name))}
FieldType(name, f) ==
    Fields(name)[CHOOSE i \in 1..Len(Fields(name)) : Fields(name)[i][1] = f][2]

\* The JSON value j has the shape of the type ty; in an object every known
\* field that is there is null or has the shape of its type.
RECURSIVE WellTyped(_, _)
WellTyped(ty, j) ==
    CASE ty.t = "i32" -> j.t = "int"
      [] ty.t = "i64" -> j.t \in {"int", "wide"}
      [] ty.t = "f32" -> j.t \in {"int", "float", "wide"}
      [] ty.t = "String" -> j.t = "str"
      [] ty.t = "vec" ->
            j.t = "arr" /\ \A i \in 1..Len(j.a) : WellTyped(Struct(ty.name), j.a[i])
      [] ty.t = "struct" ->
            /\ j.t = "obj"
            /\ \A f \in FieldNames(ty.name) \cap DOMAIN j.o :
                  j.o[f].t = "null" \/ WellTyped(FieldType(ty.name, f), j.o[f])

\* The value val of type ty says what the JSON value j says: a field is
\* there exactly when the object gives it (and not as null), with its value.
RECURSIVE Agrees(_, _, _)
Agrees(ty, val, j) ==
    CASE ty.t = "i32" -> j.t = "int" /\ val = j.i
      [] ty.t = "i64" ->
            \/ j.t = "int" /\ val = j.i
            \/ j.t = "wide" /\ val = [wide |-> j.k]
      [] ty.t = "f32" ->
            \/ j.t = "float" /\ val = j.f
            \/ j.t = "int" /\ val = 100 * j.i
            \/ j.t = "wide" /\ val = [wide |-> j.k]
      [] ty.t = "String" -> j.t = "str" /\ val = j.s
      [] ty.t = "vec" ->
            /\ j.t = "arr"
            /\ Len(val) = Len(j.a)
            /\ \A i \in 1..Len(j.a) : Agrees(Struct(ty.name), val[i], j.a[i])
      [] ty.t = "struct" ->
            /\ j.t = "obj"
            /\ DOMAIN val = FieldNames(ty.name)
            /\ \A f \in FieldNames(ty.name) :
                  IF f \in DOMAIN j.o /\ j.o[f].t # "null"
                  THEN val[f].some /\ Agrees(FieldType(ty.name, f), val[f].v, j.o[f])
                  ELSE ~val[f].some

\* by_id has ended on status 200 and a body that is a JSON object.
ById200Object ==
    /\ Ended
    /\ call.name = "by_id"
    /\ ~response.err
    /\ response.status = 200
    /\ response.body.readable
    /\ response.body.doc.t = "obj"

\* name = "Pisa", coord.lat = 43.71, coord.lon = 10.41, all else absent.
PisaInfo(info) ==
    /\ info.name = Some("Pisa")
    /\ info.coord.some
    /\ info.coord.v.lat = Some(4371)
    /\ info.coord.v.lon = Some(1041)
    /\ \A f \in FieldNames("WeatherInfo") \ {"name", "coord"} : ~info[f].some

C17_FailureCarriesResponse ==
    (Returned /\ result.kind = "Failure") =>
        /\ result.res.status = response.status
        /\ result.res.unread.some
        /\ result.res.unread.v = response.body.doc

ErrorObject(doc) ==
    /\ doc.t = "obj"
    /\ "cod" \in DOMAIN doc.o => doc.o["cod"].t \in {"int", "wide", "null"}
    /\ "message" \in DOMAIN doc.o => doc.o["message"].t \in {"str", "null"}

\* The same, with an integer cod that fits an i32.
ErrorObject32(doc) ==
    ErrorObject(doc) /\ ("cod" \in DOMAIN doc.o => doc.o["cod"].t # "wide")

\* The error fields the object gives.
GivenCod(doc) ==
    IF "cod" \in DOMAIN doc.o /\ doc.o["cod"].t = "int"
    THEN Some(doc.o["cod"].i) ELSE None
GivenMessage(doc) ==
    IF "message" \in DOMAIN doc.o /\ doc.o["message"].t = "str"
    THEN Some(doc.o["message"].s) ELSE None

\* A call has ended on a non-success status whose body was read as text.
NonSuccessText ==
    /\ Ended
    /\ ~response.err
    /\ ~is_success(response.status)
    /\ response.body.readable

(***************************************************************************)
(* C19, as claimed: with a non-success status every body that is a JSON    *)
(* object whose cod is an integer or null and whose message is a string or *)
(* null (each if present) ends in BadRequest with the fields it gives, and *)
(* Failure is returned only for a body that is not such an object.         *)
(***************************************************************************)
C19_ErrorObjects ==
    NonSuccessText =>
        LET doc == response.body.doc
        IN  /\ ErrorObject(doc) =>
                  /\ result.kind = "BadRequest"
                  /\ result.serr["cod"] = GivenCod(doc)
                  /\ result.serr["message"] = GivenMessage(doc)
            /\ result.kind = "Failure" => ~ErrorObject(doc)

(***************************************************************************)
(* C19, amended: the same for the objects whose cod, if present, is null   *)
(* or an integer in the range of i32; an object whose cod is an integer    *)
(* beyond that range ends in Failure.                                      *)
(***************************************************************************)
C19_ErrorObjectsI32 ==
    NonSuccessText =>
        LET doc == response.body.doc
        IN  /\ ErrorObject32(doc) =>
                  /\ result.kind = "BadRequest"
                  /\ result.serr["cod"] = GivenCod(doc)
                  /\ result.serr["message"] = GivenMessage(doc)
            /\ result.kind = "Failure" => ~ErrorObject32(doc)
            /\ (ErrorObject(doc) /\ ~ErrorObject32(doc)) => result.kind = "Failure"

\* An object with only an unrelated field: BadRequest, both fields absent.
C19_Witness ==
    /\ Returned
    /\ response = Response(404, B_name_5)
    /\ result.kind = "BadRequest"
    /\ ~result.serr["cod"].some
    /\ ~result.serr["message"].some

\* The parameters a terminal method sets itself.
OwnKeys(name) ==
    CASE name = "by_name" -> {K_q}
      [] name = "by_id" -> {K_id}
      [] name = "by_zip_code" -> {K_zip}
      [] name = "by_coords" -> {K_lat, K_lon}
      [] name = "by_bounds" -> {K_bbox, K_cluster}
      [] name = "by_circle" -> {K_lat, K_lon, K_cnt, K_cluster}

(***************************************************************************)
(* C20: query independence.  No step changes the key of the hub, and the   *)
(* URL of a query holds appid, the parameters of its terminal method and   *)
(* what units() and lang() set on that same query, with the values set     *)
(* there; what was set on another query of the hub is not in it.           *)
(***************************************************************************)
C20_QueryIndependence ==
    /\ [][key' = key]_vars
    /\ [](Waiting =>
            /\ NamesOf(wire) =
                  {K_appid} \cup OwnKeys(call.name) \cup DOMAIN frame.mods
            /\ \A k \in DOMAIN frame.mods : ValuesOf(wire, k) = <<frame.mods[k]>>)

\* A query with a language of its own is in flight while another query of
\* the hub, still live, has units set: the URL holds lang and no units.
C20_Witness ==
    /\ Waiting
    /\ \E q \in DOMAIN queries : K_units \in DOMAIN mods[q]
    /\ K_units \notin NamesOf(wire)
    /\ K_lang \in NamesOf(wire)
====
